---- MODULE Spec2Model ----
(***************************************************************************)
(* The custom allocators of harmony_containers.h: the bump arena           *)
(* (HarmonyArena) and the fixed-slot pool (HarmonyPool).                   *)
(*                                                                         *)
(* Addresses, sizes and offsets are usize values.  The model keeps the     *)
(* machine's modular arithmetic but scales the word down: a word is        *)
(* UsizeBytes addressable cells of CellBits bits each, so every usize      *)
(* expression of the source is evaluated modulo Modulus.  Multi-cell       *)
(* values are stored least significant cell first (little-endian).         *)
(***************************************************************************)
EXTENDS Integers, Sequences, FiniteSets, TLC

VARIABLES
    arena,          \* HarmonyArena: [data, capacity, head]
    arena_made,     \* how the arena came to be: [by, capacity], by = "create" for
                    \* harmony_arena_create(allocator, capacity), "literal" for a
                    \* struct the caller filled in
    arena_live,     \* allocations the caller holds: set of [ptr, size]
    arena_call,     \* the last arena call: [op, ptr, size, new_size, ret, head0,
                    \* prev, prev_used, copy]: head0 = head before the call, prev = the
                    \* call made before it, prev_used = head was above 0 before that
                    \* one, copy = the memcpy the call issued
    arena_status,   \* "ok", or "crashed" once undefined behaviour took the process down
    pool,           \* HarmonyPool: [data, capacity, item_width, next_offset]
    pool_mem,       \* the pool's buffer, one entry per addressable cell
    pool_allocated, \* slots the caller holds: set of addresses
    pool_call,      \* the last pool call: [op, ptr, ret, next0, oob, dup]: next0 =
                    \* next_offset before the call, oob = the offsets it accessed
                    \* outside the buffer, dup = (alloc) the slot returned was held
                    \* already, (free) the slot was freed before and not held; is_valid
                    \* adds steps = links followed, first = no is_valid since the
                    \* reset, after_double = the call before was such a second free
    pool_freed,     \* slots the caller has given back since the reset
    pool_misuse,    \* TRUE once the caller freed a slot it did not hold (since the reset)
    pool_walked,    \* TRUE once harmony_pool_is_valid was called (since the reset)
    pool_streak,    \* the allocs made since the reset while nothing else was called:
                    \* [fresh, rets], rets[k] = the k-th alloc succeeded
    pool_calls,     \* number of pool calls made since harmony_pool_create
    pool_status,    \* "ok" or "crashed"
    heap_blocks,    \* the C heap: blocks malloc/realloc gave out, set of [ptr, size]
    heap_call,      \* the last call through a heap-backed HarmonyAllocator:
                    \* [via, op, ptr, size, new_size, ret]
    heap_debug,     \* TRUE when built without NDEBUG (harmony_debug_mode runs its code)
    heap_status,    \* "ok", or "aborted" once harmony_assert called abort()
    race_mode,      \* two threads on one allocator: "atomic" when the caller wraps
                    \* each call in a lock, "interleaved" when it does not
    race_target,    \* the allocator both threads call: "arena" or "pool"
    race_thread     \* per thread: [pc, size, new_head, allocation, ret], pc = where
                    \* the thread is in its call, the next three its locals

vars == <<arena, arena_made, arena_live, arena_call, arena_status,
          pool, pool_mem, pool_allocated, pool_freed, pool_misuse, pool_walked,
          pool_call, pool_streak, pool_calls, pool_status,
          heap_blocks, heap_call, heap_debug, heap_status,
          race_mode, race_target, race_thread>>

arena_vars == <<arena, arena_made, arena_live, arena_call, arena_status>>
pool_vars == <<pool, pool_mem, pool_allocated, pool_freed, pool_misuse, pool_walked,
               pool_call, pool_streak, pool_calls, pool_status>>
heap_vars == <<heap_blocks, heap_call, heap_debug, heap_status>>
race_vars == <<race_mode, race_target, race_thread>>

(***************************************************************************)
(* Machine words                                                           *)
(***************************************************************************)
\* bits of one addressable cell (a scaled-down byte)
CellBits == 2
\* sizeof(u64): the width of a free-list link, and of usize
UsizeBytes == 8
CellValues == 2^CellBits
Modulus == 2^(UsizeBytes * CellBits)
\* the failure marker
NULL == 0
\* the arena's fixed alignment
ARENA_ALIGNMENT == 16

\* usize arithmetic wraps
Wrap(x) == x % Modulus

\* (value + alignment - 1) & ~(alignment - 1), alignment a power of two
harmony_align(value, alignment) ==
    LET sum == Wrap(value + alignment - 1)
    IN  sum - (sum % alignment)

\* the mathematical round-up the specification speaks of (no wrap-around)
round_up(size, alignment) == ((size + alignment - 1) \div alignment) * alignment

(***************************************************************************)
(* Arena                                                                   *)
(***************************************************************************)
\* largest arena capacity of the model
MaxArenaCapacity == 64
\* capacities: none (what harmony_arena_create leaves) and the largest
ArenaCapacities == {0, MaxArenaCapacity}
\* addresses the backing allocator may return for the buffer: one below the
\* largest capacity, one far above it (both aligned as malloc aligns)
ArenaBases == {32, 4096}
\* request sizes: the capacities, sizes that need rounding (to one and to two
\* alignment units), and sizes whose rounding or whose sum with head wraps
ArenaSizes == ArenaCapacities \cup {0, 10, 17, Modulus - 16, Modulus - 1}
\* new sizes asked of harmony_arena_realloc: nothing, a size that needs
\* rounding, and the capacities
ArenaNewSizes == ArenaCapacities \cup {0, 10}
\* the caller keeps at most this many allocations to free or resize later;
\* the pointers of further allocs are used and let go, as arena callers do
MaxLive == 2

Keep(live, al) == IF Cardinality(live) < MaxLive THEN live \cup {al} ELSE live

\* harmony_arena_create: a designated initializer that sets .data only
harmony_arena_create(data, capacity) ==
    [data |-> data, capacity |-> 0, head |-> 0]

\* a HarmonyArena the caller fills in itself (the struct is public)
ArenaLiteral(data, capacity) ==
    [data |-> data, capacity |-> capacity, head |-> 0]

\* faulty variant: head is not cleared
harmony_arena_reset_keep(a) == a

harmony_arena_reset(a) == [a EXCEPT !.head = 0]

\* faulty variant: no test of new_head against capacity
harmony_arena_alloc_nocheck(a, size) ==
    IF size = 0
    THEN [arena |-> a, ret |-> NULL]
    ELSE [arena |-> [a EXCEPT !.head = Wrap(a.head + harmony_align(size, ARENA_ALIGNMENT))],
          ret |-> Wrap(a.data + a.head)]

\* faulty variant: no test for size == 0
harmony_arena_alloc_zero(a, size) ==
    LET new_head == Wrap(a.head + harmony_align(size, ARENA_ALIGNMENT))
    IN  IF new_head > a.capacity
        THEN [arena |-> a, ret |-> NULL]
        ELSE [arena |-> [a EXCEPT !.head = new_head], ret |-> Wrap(a.data + a.head)]

\* faulty variant: the address is taken after head has moved
harmony_arena_alloc_newhead(a, size) ==
    IF size = 0
    THEN [arena |-> a, ret |-> NULL]
    ELSE LET new_head == Wrap(a.head + harmony_align(size, ARENA_ALIGNMENT))
         IN  IF new_head > a.capacity
             THEN [arena |-> a, ret |-> NULL]
             ELSE [arena |-> [a EXCEPT !.head = new_head], ret |-> Wrap(a.data + new_head)]

harmony_arena_alloc(a, size) ==
    IF size = 0
    THEN [arena |-> a, ret |-> NULL]
    ELSE LET new_head == Wrap(a.head + harmony_align(size, ARENA_ALIGNMENT))
         IN  IF new_head > a.capacity
             THEN [arena |-> a, ret |-> NULL]
             ELSE [arena |-> [a EXCEPT !.head = new_head], ret |-> Wrap(a.data + a.head)]

\* the result of harmony_arena_realloc: the arena, the returned pointer and
\* the memcpy it issued (NoCopy when it issued none)
NoCopy == [dst |-> NULL, src |-> NULL, len |-> 0, made |-> FALSE]

harmony_arena_realloc(a, allocation, old_size, new_size) ==
    IF new_size = 0
    THEN [arena |-> [a EXCEPT !.head = Wrap(allocation - a.data)], ret |-> NULL, copy |-> NoCopy]
    ELSE IF Wrap(allocation + harmony_align(old_size, ARENA_ALIGNMENT)) = a.head
    THEN LET new_head == Wrap(Wrap(allocation - a.data) + harmony_align(new_size, ARENA_ALIGNMENT))
         IN  IF new_head > a.capacity
             THEN [arena |-> a, ret |-> NULL, copy |-> NoCopy]
             ELSE [arena |-> [a EXCEPT !.head = new_head], ret |-> allocation, copy |-> NoCopy]
    ELSE LET r == harmony_arena_alloc(a, new_size)
         IN  [arena |-> r.arena, ret |-> r.ret,
              copy |-> [dst |-> r.ret, src |-> allocation, len |-> old_size, made |-> TRUE]]

harmony_arena_free(a, allocation, size) ==
    IF Wrap(allocation + harmony_align(size, ARENA_ALIGNMENT)) = a.head
    THEN [a EXCEPT !.head = Wrap(allocation - a.data)]
    ELSE a

\* memcpy(dst, src, len) stays inside the arena's buffer
CopyInBounds(a, copy) ==
    \/ ~copy.made
    \/ copy.len = 0
    \/ /\ copy.dst # NULL
       /\ Wrap(copy.dst - a.data) + copy.len <= a.capacity
       /\ Wrap(copy.src - a.data) + copy.len <= a.capacity

ArenaCall(op, ptr, size, new_size, ret, copy) ==
    [op |-> op, ptr |-> ptr, size |-> size, new_size |-> new_size,
     ret |-> ret, head0 |-> arena.head, prev |-> arena_call.op,
     prev_used |-> arena_call.head0 > 0, copy |-> copy]

ArenaInit ==
    /\ \E data \in ArenaBases, capacity \in ArenaCapacities :
           \/ /\ arena = harmony_arena_create(data, capacity)
              /\ arena_made = [by |-> "create", capacity |-> capacity]
           \/ /\ arena = ArenaLiteral(data, capacity)
              /\ arena_made = [by |-> "literal", capacity |-> capacity]
    /\ arena_live = {}
    /\ arena_call = [op |-> "create", ptr |-> NULL, size |-> 0, new_size |-> 0,
                     ret |-> NULL, head0 |-> 0, prev |-> "none", prev_used |-> FALSE,
                     copy |-> NoCopy]
    /\ arena_status = "ok"

ArenaReset ==
    /\ arena_status = "ok"
    /\ arena' = harmony_arena_reset(arena)
    /\ arena_live' = {}
    /\ arena_call' = ArenaCall("reset", NULL, 0, 0, NULL, NoCopy)
    /\ UNCHANGED <<arena_made, arena_status, pool_vars, heap_vars, race_vars>>

ArenaAlloc ==
    /\ arena_status = "ok"
    /\ \E size \in ArenaSizes :
          LET r == harmony_arena_alloc(arena, size)
          IN  /\ arena' = r.arena
              /\ arena_live' = IF r.ret = NULL THEN arena_live
                               ELSE Keep(arena_live, [ptr |-> r.ret, size |-> size])
              /\ arena_call' = ArenaCall("alloc", NULL, size, 0, r.ret, NoCopy)
    /\ UNCHANGED <<arena_made, arena_status, pool_vars, heap_vars, race_vars>>

\* the caller passes an allocation it holds, with the size it has
ArenaRealloc ==
    /\ arena_status = "ok"
    /\ \E al \in arena_live, new_size \in ArenaNewSizes :
          LET r == harmony_arena_realloc(arena, al.ptr, al.size, new_size)
          IN  /\ arena' = r.arena
              /\ arena_live' =
                    IF r.ret = NULL
                    THEN (IF new_size = 0 THEN arena_live \ {al} ELSE arena_live)
                    ELSE Keep(arena_live \ {al}, [ptr |-> r.ret, size |-> new_size])
              /\ arena_call' = ArenaCall("realloc", al.ptr, al.size, new_size, r.ret, r.copy)
              /\ IF CopyInBounds(arena, r.copy)
                 THEN arena_status' = "ok"
                 ELSE arena_status' \in {"ok", "crashed"}
    /\ UNCHANGED <<arena_made, pool_vars, heap_vars, race_vars>>

ArenaFree ==
    /\ arena_status = "ok"
    /\ \E al \in arena_live :
          /\ arena' = harmony_arena_free(arena, al.ptr, al.size)
          /\ arena_live' = arena_live \ {al}
          /\ arena_call' = ArenaCall("free", al.ptr, al.size, 0, NULL, NoCopy)
    /\ UNCHANGED <<arena_made, arena_status, pool_vars, heap_vars, race_vars>>

ArenaNext ==
    \/ ArenaReset
    \/ ArenaAlloc
    \/ ArenaRealloc
    \/ ArenaFree

(***************************************************************************)
(* Pool                                                                    *)
(***************************************************************************)
\* largest item_count of the model
MaxItemCount == 4
\* longest run of allocs after a reset that pool_streak records
MaxStreak == 6
\* number of pool calls made on one pool
MaxPoolCalls == 10
\* the smallest item width: a slot must hold one u64 link
MIN_ITEM_WIDTH == 8
\* item widths asked of harmony_pool_create
PoolItemWidths == {1, 16}
PoolBases == {4096}
\* what malloc's buffer holds before the pool writes to it: every cell the
\* same value, zero (fresh pages) or all ones
PoolFills == {0, CellValues - 1}
\* what a read outside the buffer may yield
JunkWords == {0, Modulus - 1}

harmony_max(a, b) == IF a > b THEN a ELSE b

\* cell k of the little-endian u64 v
Cell(v, k) == (v \div (CellValues ^ k)) % CellValues

InBounds(capacity, offset) == offset + UsizeBytes <= capacity

\* *(u64 *)((u8 *)data + offset) = v ; cells outside the buffer are not the pool's
WriteU64(mem, offset, v) ==
    [x \in DOMAIN mem |->
        IF offset <= x /\ x < offset + UsizeBytes THEN Cell(v, x - offset) ELSE mem[x]]

RECURSIVE SumCells(_, _, _, _)
SumCells(mem, offset, junk, k) ==
    IF k = UsizeBytes THEN 0
    ELSE (IF offset + k \in DOMAIN mem THEN mem[offset + k] ELSE Cell(junk, k))
            * (CellValues ^ k)
         + SumCells(mem, offset, junk, k + 1)

\* *(u64 *)((u8 *)data + offset) ; cells outside the buffer read as junk's
ReadU64(mem, offset, junk) == SumCells(mem, offset, junk, 0)

\* where the reset stores the link for loop index i, and the link it stores
reset_link_offset(p, i) == Wrap(i * p.capacity)
reset_link_value(p, i) == Wrap(i + 1)

RECURSIVE pool_reset_loop(_, _, _)
pool_reset_loop(p, mem, i) ==
    IF i < p.capacity
    THEN pool_reset_loop(p, WriteU64(mem, reset_link_offset(p, i), reset_link_value(p, i)),
                         i + p.item_width)
    ELSE mem

\* the offsets the reset loop writes outside the buffer
pool_reset_oob(p) ==
    { reset_link_offset(p, i) :
        i \in { j \in 0 .. p.capacity : j < p.capacity /\ j % p.item_width = 0
                                         /\ ~InBounds(p.capacity, reset_link_offset(p, j)) } }

harmony_pool_reset(p, mem) ==
    [pool |-> [p EXCEPT !.next_offset = 0],
     mem |-> pool_reset_loop(p, mem, 0),
     oob |-> pool_reset_oob(p)]

harmony_pool_create(data, item_width, item_count, fill) ==
    LET width == harmony_max(item_width, MIN_ITEM_WIDTH)
        capacity == Wrap(width * item_count)
    IN  harmony_pool_reset(
            [data |-> data, capacity |-> capacity, item_width |-> width, next_offset |-> 0],
            [x \in 0 .. capacity - 1 |-> fill])

harmony_pool_alloc(p, mem, junk) ==
    IF p.next_offset > Wrap(p.capacity - p.item_width)
    THEN [pool |-> p, ret |-> NULL, oob |-> {}]
    ELSE [pool |-> [p EXCEPT !.next_offset = ReadU64(mem, p.next_offset, junk)],
          ret |-> Wrap(p.data + p.next_offset),
          oob |-> IF InBounds(p.capacity, p.next_offset) THEN {} ELSE {p.next_offset}]

\* harmony_assert((usize)allocation - (usize)pool->data < pool->capacity)
pool_free_assert(p, allocation) == Wrap(allocation - p.data) < p.capacity

\* faulty variant: the link is not stored in the freed slot
harmony_pool_free_nolink(p, mem, allocation) ==
    LET offset == Wrap(allocation - p.data)
    IN  [pool |-> [p EXCEPT !.next_offset = offset],
         mem |-> mem,
         oob |-> IF InBounds(p.capacity, offset) THEN {} ELSE {offset}]

\* faulty variant: freeing the slot that heads the chain already is ignored
harmony_pool_free_once(p, mem, allocation) ==
    LET offset == Wrap(allocation - p.data)
    IN  IF p.next_offset = offset
        THEN [pool |-> p, mem |-> mem, oob |-> {}]
        ELSE [pool |-> [p EXCEPT !.next_offset = offset],
              mem |-> WriteU64(mem, offset, p.next_offset),
              oob |-> IF InBounds(p.capacity, offset) THEN {} ELSE {offset}]

harmony_pool_free(p, mem, allocation) ==
    LET offset == Wrap(allocation - p.data)
    IN  [pool |-> [p EXCEPT !.next_offset = offset],
         mem |-> WriteU64(mem, offset, p.next_offset),
         oob |-> IF InBounds(p.capacity, offset) THEN {} ELSE {offset}]

\* faulty variant: an offset out of range inside the loop is reported as valid
pool_is_valid_early_true(p, i, oob) == {[pool |-> p, ret |-> TRUE, oob |-> oob, steps |-> i]}

\* the return inside the loop: next_offset is out of range after i < slot_count links
pool_is_valid_early(p, i, oob) == {[pool |-> p, ret |-> FALSE, oob |-> oob, steps |-> i]}

\* the outcomes of harmony_pool_is_valid from loop index i on: a read outside
\* the buffer may yield any junk word
RECURSIVE pool_is_valid_loop(_, _, _, _)
pool_is_valid_loop(p, mem, i, oob) ==
    IF i < p.capacity \div p.item_width
    THEN IF p.next_offset > Wrap(p.capacity - p.item_width)
         THEN pool_is_valid_early(p, i, oob)
         ELSE LET offset == Wrap(UsizeBytes * p.next_offset)
              IN  IF InBounds(p.capacity, offset)
                  THEN pool_is_valid_loop([p EXCEPT !.next_offset = ReadU64(mem, offset, 0)],
                                          mem, i + 1, oob)
                  ELSE UNION { pool_is_valid_loop(
                                   [p EXCEPT !.next_offset = ReadU64(mem, offset, junk)],
                                   mem, i + 1, oob \cup {offset}) : junk \in JunkWords }
    ELSE {[pool |-> p, ret |-> p.next_offset > Wrap(p.capacity - p.item_width),
           oob |-> oob, steps |-> i]}

\* faulty variant: next_offset is put back once the walk is over
harmony_pool_is_valid_restore(p, mem) ==
    {[r EXCEPT !.pool = p] : r \in pool_is_valid_loop(p, mem, 0, {})}

harmony_pool_is_valid(p, mem) == pool_is_valid_loop(p, mem, 0, {})

PoolCall(op, ptr, ret, oob, dup) ==
    [op |-> op, ptr |-> ptr, ret |-> ret, next0 |-> pool.next_offset, oob |-> oob, dup |-> dup]

\* whether call c was the second of two frees of one pointer in a row, or the
\* harmony_pool_alloc made right after such a pair
CallTwice(c) ==
    CASE c.op = "free" -> c.twice
      [] c.op = "alloc" -> c.prev.op = "free" /\ c.prev.twice
      [] OTHER -> FALSE

\* whether call c left the pool as a harmony_pool_is_valid that returned true
\* with no slot handed out left it
CallSealed(c) ==
    CASE c.op = "is_valid" -> c.ret /\ c.all_free
      [] c.op = "alloc" -> c.sealed
      [] OTHER -> FALSE

\* what a call remembers of the call made before it
CallSummary(c) ==
    [op |-> c.op, ptr |-> c.ptr, ret |-> c.ret, next0 |-> c.next0, twice |-> CallTwice(c)]

\* an access outside the buffer either goes unnoticed or takes the process down
Survives(oob) == IF oob = {} THEN {"ok"} ELSE {"ok", "crashed"}

NoStreak == [fresh |-> FALSE, rets |-> << >>]

PoolInit ==
    /\ \E data \in PoolBases, item_width \in PoolItemWidths,
          item_count \in 0 .. MaxItemCount, fill \in PoolFills :
          LET r == harmony_pool_create(data, item_width, item_count, fill)
          IN  /\ pool = r.pool
              /\ pool_mem = r.mem
              /\ pool_call = [op |-> "create", ptr |-> NULL, ret |-> NULL, next0 |-> 0,
                              oob |-> r.oob, dup |-> FALSE]
              /\ pool_status \in Survives(r.oob)
    /\ pool_allocated = {}
    /\ pool_freed = {}
    /\ pool_misuse = FALSE
    /\ pool_walked = FALSE
    /\ pool_streak = [fresh |-> TRUE, rets |-> << >>]
    /\ pool_calls = 0

PoolReset ==
    /\ pool_status = "ok"
    /\ pool_calls < MaxPoolCalls
    /\ pool_calls' = pool_calls + 1
    /\ LET r == harmony_pool_reset(pool, pool_mem)
       IN  /\ pool' = r.pool
           /\ pool_mem' = r.mem
           /\ pool_call' = PoolCall("reset", NULL, NULL, r.oob, FALSE)
           /\ pool_status' \in Survives(r.oob)
    /\ pool_allocated' = {}
    /\ pool_freed' = {}
    /\ pool_misuse' = FALSE
    /\ pool_walked' = FALSE
    /\ pool_streak' = [fresh |-> TRUE, rets |-> << >>]
    /\ UNCHANGED <<arena_vars, heap_vars, race_vars>>

PoolAlloc ==
    /\ pool_status = "ok"
    /\ pool_calls < MaxPoolCalls
    /\ pool_calls' = pool_calls + 1
    /\ \E junk \in (IF InBounds(pool.capacity, pool.next_offset) THEN {0} ELSE JunkWords) :
          LET r == harmony_pool_alloc(pool, pool_mem, junk)
          IN  /\ pool' = r.pool
              /\ pool_call' = [op |-> "alloc", ptr |-> NULL, ret |-> r.ret,
                               next0 |-> pool.next_offset, oob |-> r.oob,
                               dup |-> r.ret \in pool_allocated,
                               prev |-> CallSummary(pool_call),
                               sealed |-> CallSealed(pool_call)]
              /\ pool_status' \in Survives(r.oob)
              /\ pool_allocated' = IF r.ret = NULL THEN pool_allocated
                                   ELSE pool_allocated \cup {r.ret}
              /\ pool_freed' = pool_freed \ {r.ret}
              /\ pool_streak' = IF pool_streak.fresh /\ Len(pool_streak.rets) < MaxStreak
                                THEN [pool_streak EXCEPT !.rets = Append(@, r.ret # NULL)]
                                ELSE NoStreak
    /\ UNCHANGED <<pool_mem, pool_misuse, pool_walked, arena_vars, heap_vars, race_vars>>

\* the caller frees a slot it holds, or (misuse) one it has freed already
PoolFree ==
    /\ pool_status = "ok"
    /\ pool_calls < MaxPoolCalls
    /\ pool_calls' = pool_calls + 1
    /\ \E allocation \in pool_allocated \cup pool_freed :
          LET r == harmony_pool_free(pool, pool_mem, allocation)
          IN  /\ pool' = r.pool
              /\ pool_mem' = r.mem
              /\ pool_call' = [op |-> "free", ptr |-> allocation, ret |-> NULL,
                               next0 |-> pool.next_offset, oob |-> r.oob,
                               dup |-> allocation \notin pool_allocated,
                               twice |-> pool_call.op = "free"
                                            /\ pool_call.ptr = allocation]
              /\ pool_status' \in
                    IF pool_free_assert(pool, allocation)
                    THEN Survives(r.oob) ELSE {"ok", "crashed"}
              /\ pool_allocated' = pool_allocated \ {allocation}
              /\ pool_freed' = pool_freed \cup {allocation}
              /\ pool_misuse' = (pool_misuse \/ allocation \notin pool_allocated)
    /\ pool_streak' = NoStreak
    /\ UNCHANGED <<pool_walked, arena_vars, heap_vars, race_vars>>

PoolIsValid ==
    /\ pool_status = "ok"
    /\ pool_calls < MaxPoolCalls
    /\ pool_calls' = pool_calls + 1
    /\ \E r \in harmony_pool_is_valid(pool, pool_mem) :
          /\ pool' = r.pool
          /\ pool_call' = [op |-> "is_valid", ptr |-> NULL, ret |-> r.ret,
                           next0 |-> pool.next_offset, oob |-> r.oob, dup |-> FALSE,
                           steps |-> r.steps, first |-> ~pool_walked,
                           after_double |-> pool_call.op = "free" /\ pool_call.dup,
                           all_free |-> pool_allocated = {}]
          /\ pool_status' \in Survives(r.oob)
    /\ pool_streak' = NoStreak
    /\ pool_walked' = TRUE
    /\ UNCHANGED <<pool_mem, pool_allocated, pool_freed, pool_misuse, arena_vars, heap_vars, race_vars>>

PoolNext ==
    \/ PoolReset
    \/ PoolAlloc
    \/ PoolFree
    \/ PoolIsValid

(***************************************************************************)
(* Heap-backed allocators: harmony_default_* (malloc, realloc and free     *)
(* with a debug-mode assertion) and harmony_system_allocator_* (the bare   *)
(* calls), both reached through the HarmonyAllocator function pointers     *)
(***************************************************************************)
\* number of blocks the C heap can hold before malloc reports failure
MaxHeapBlocks == 2
\* addresses malloc may return
HeapAddrs == {256, 512, 768}
\* sizes asked of the heap-backed allocators
HeapSizes == {0, 8, 24}

\* addresses malloc can still give out
HeapFresh(blocks) ==
    IF Cardinality(blocks) < MaxHeapBlocks
    THEN {q \in HeapAddrs : \A b \in blocks : b.ptr # q}
    ELSE {}

\* malloc(size): NULL (no memory; for size 0 the implementation may also choose
\* it) or a new block; for size 0 the implementation may return a unique
\* non-null pointer
malloc(blocks, size) ==
    {[ret |-> NULL, blocks |-> blocks]}
    \cup {[ret |-> q, blocks |-> blocks \cup {[ptr |-> q, size |-> size]}] :
             q \in HeapFresh(blocks)}

\* realloc(ptr, new_size) of the held block b: NULL with the block kept (no
\* memory), NULL with the block freed (what an implementation may do for
\* new_size 0), or the block resized in place or moved
realloc(blocks, b, new_size) ==
    {[ret |-> NULL, blocks |-> IF new_size = 0 THEN blocks \ {b} ELSE blocks]}
    \cup {[ret |-> q, blocks |-> (blocks \ {b}) \cup {[ptr |-> q, size |-> new_size]}] :
             q \in {b.ptr} \cup HeapFresh(blocks \ {b})}

free(blocks, b) == blocks \ {b}

\* harmony_assert(condition): checked in debug builds only; FALSE = abort()
harmony_assert(debug, condition) == ~debug \/ condition

\* harmony_alloc / harmony_realloc / harmony_free: the call through the
\* HarmonyAllocator's function pointer, which adds nothing to the outcome
harmony_alloc(outcomes) == outcomes
harmony_realloc(outcomes) == outcomes
harmony_free(outcome) == outcome

harmony_default_alloc(debug, blocks, size) ==
    { [ret |-> m.ret, blocks |-> m.blocks,
       aborted |-> ~harmony_assert(debug, m.ret # NULL)] : m \in malloc(blocks, size) }

harmony_default_realloc(debug, blocks, b, old_size, new_size) ==
    { [ret |-> m.ret, blocks |-> m.blocks,
       aborted |-> ~harmony_assert(debug, m.ret # NULL)] : m \in realloc(blocks, b, new_size) }

harmony_default_free(blocks, b, size) == free(blocks, b)

harmony_system_allocator_alloc(blocks, size) ==
    { [ret |-> m.ret, blocks |-> m.blocks, aborted |-> FALSE] : m \in malloc(blocks, size) }

harmony_system_allocator_realloc(blocks, b, old_size, new_size) ==
    { [ret |-> m.ret, blocks |-> m.blocks, aborted |-> FALSE] :
        m \in realloc(blocks, b, new_size) }

harmony_system_allocator_free(blocks, b, size) == free(blocks, b)

HeapCall(via, op, ptr, size, new_size, ret) ==
    [via |-> via, op |-> op, ptr |-> ptr, size |-> size, new_size |-> new_size, ret |-> ret]

HeapInit ==
    /\ heap_blocks = {}
    /\ heap_call = HeapCall("none", "none", NULL, 0, 0, NULL)
    /\ heap_debug \in BOOLEAN
    /\ heap_status = "ok"

\* the effect of an outcome r of an alloc or realloc
HeapReturn(via, op, ptr, size, new_size, r) ==
    /\ heap_blocks' = r.blocks
    /\ heap_call' = HeapCall(via, op, ptr, size, new_size, r.ret)
    /\ heap_status' = IF r.aborted THEN "aborted" ELSE "ok"
    /\ UNCHANGED <<heap_debug, arena_vars, pool_vars, race_vars>>

DefaultAlloc ==
    /\ heap_status = "ok"
    /\ \E size \in HeapSizes :
       \E r \in harmony_alloc(harmony_default_alloc(heap_debug, heap_blocks, size)) :
          HeapReturn("default", "alloc", NULL, size, 0, r)

DefaultRealloc ==
    /\ heap_status = "ok"
    /\ \E b \in heap_blocks, new_size \in HeapSizes :
       \E r \in harmony_realloc(
                    harmony_default_realloc(heap_debug, heap_blocks, b, b.size, new_size)) :
          HeapReturn("default", "realloc", b.ptr, b.size, new_size, r)

DefaultFree ==
    /\ heap_status = "ok"
    /\ \E b \in heap_blocks :
          /\ heap_blocks' = harmony_free(harmony_default_free(heap_blocks, b, b.size))
          /\ heap_call' = HeapCall("default", "free", b.ptr, b.size, 0, NULL)
    /\ UNCHANGED <<heap_debug, heap_status, arena_vars, pool_vars, race_vars>>

SystemAlloc ==
    /\ heap_status = "ok"
    /\ \E size \in HeapSizes :
       \E r \in harmony_alloc(harmony_system_allocator_alloc(heap_blocks, size)) :
          HeapReturn("system", "alloc", NULL, size, 0, r)

SystemRealloc ==
    /\ heap_status = "ok"
    /\ \E b \in heap_blocks, new_size \in HeapSizes :
       \E r \in harmony_realloc(
                    harmony_system_allocator_realloc(heap_blocks, b, b.size, new_size)) :
          HeapReturn("system", "realloc", b.ptr, b.size, new_size, r)

SystemFree ==
    /\ heap_status = "ok"
    /\ \E b \in heap_blocks :
          /\ heap_blocks' = harmony_free(harmony_system_allocator_free(heap_blocks, b, b.size))
          /\ heap_call' = HeapCall("system", "free", b.ptr, b.size, 0, NULL)
    /\ UNCHANGED <<heap_debug, heap_status, arena_vars, pool_vars, race_vars>>

HeapNext ==
    \/ DefaultAlloc
    \/ DefaultRealloc
    \/ DefaultFree
    \/ SystemAlloc
    \/ SystemRealloc
    \/ SystemFree

(***************************************************************************)
(* Two threads calling harmony_arena_alloc, or harmony_pool_alloc, on the  *)
(* same instance.  Without a lock the reads and writes of head and         *)
(* next_offset of the two calls interleave statement by statement.         *)
(***************************************************************************)
Threads == {1, 2}

RaceIdleThread == [pc |-> "idle", size |-> 0, new_head |-> 0, allocation |-> NULL, ret |-> NULL]

RaceInit ==
    /\ race_mode \in {"atomic", "interleaved"}
    /\ race_target \in {"arena", "pool"}
    /\ race_thread = [t \in Threads |-> RaceIdleThread]

RaceDone(t, size, ret) == [race_thread[t] EXCEPT !.pc = "done", !.size = size, !.ret = ret]

\* a whole harmony_arena_alloc under the caller's lock
RaceArenaAllocAtomic(t) ==
    /\ race_mode = "atomic" /\ race_target = "arena"
    /\ race_thread[t].pc = "idle"
    /\ \E size \in ArenaSizes :
          LET r == harmony_arena_alloc(arena, size)
          IN  /\ arena' = r.arena
              /\ race_thread' = [race_thread EXCEPT ![t] = RaceDone(t, size, r.ret)]
    /\ UNCHANGED <<arena_made, arena_live, arena_call, arena_status,
                   pool_vars, heap_vars, race_mode, race_target>>

\* if (size == 0) return NULL; new_head = arena->head + harmony_align(size, 16);
\* if (new_head > arena->capacity) return NULL;
RaceArenaAllocHead(t) ==
    /\ race_mode = "interleaved" /\ race_target = "arena"
    /\ race_thread[t].pc = "idle"
    /\ \E size \in ArenaSizes :
          LET new_head == Wrap(arena.head + harmony_align(size, ARENA_ALIGNMENT))
          IN  race_thread' = [race_thread EXCEPT ![t] =
                  IF size = 0 \/ new_head > arena.capacity
                  THEN RaceDone(t, size, NULL)
                  ELSE [@ EXCEPT !.pc = "address", !.size = size, !.new_head = new_head]]
    /\ UNCHANGED <<arena_vars, pool_vars, heap_vars, race_mode, race_target>>

\* void *allocation = (u8 *)arena->data + arena->head;
RaceArenaAllocAddress(t) ==
    /\ race_mode = "interleaved" /\ race_target = "arena"
    /\ race_thread[t].pc = "address"
    /\ race_thread' = [race_thread EXCEPT ![t] =
           [@ EXCEPT !.pc = "write", !.allocation = Wrap(arena.data + arena.head)]]
    /\ UNCHANGED <<arena_vars, pool_vars, heap_vars, race_mode, race_target>>

\* arena->head = new_head; return allocation;
RaceArenaAllocWrite(t) ==
    /\ race_mode = "interleaved" /\ race_target = "arena"
    /\ race_thread[t].pc = "write"
    /\ arena' = [arena EXCEPT !.head = race_thread[t].new_head]
    /\ race_thread' = [race_thread EXCEPT ![t] =
           RaceDone(t, race_thread[t].size, race_thread[t].allocation)]
    /\ UNCHANGED <<arena_made, arena_live, arena_call, arena_status,
                   pool_vars, heap_vars, race_mode, race_target>>

\* a whole harmony_pool_alloc under the caller's lock
RacePoolAllocAtomic(t) ==
    /\ race_mode = "atomic" /\ race_target = "pool"
    /\ race_thread[t].pc = "idle"
    /\ pool_status = "ok"
    /\ \E junk \in (IF InBounds(pool.capacity, pool.next_offset) THEN {0} ELSE JunkWords) :
          LET r == harmony_pool_alloc(pool, pool_mem, junk)
          IN  /\ pool' = r.pool
              /\ pool_status' \in Survives(r.oob)
              /\ race_thread' = [race_thread EXCEPT ![t] = RaceDone(t, 0, r.ret)]
    /\ UNCHANGED <<pool_mem, pool_allocated, pool_freed, pool_misuse, pool_walked,
                   pool_call, pool_streak, pool_calls,
                   arena_vars, heap_vars, race_mode, race_target>>

\* if (pool->next_offset > pool->capacity - pool->item_width) return NULL;
RacePoolAllocCheck(t) ==
    /\ race_mode = "interleaved" /\ race_target = "pool"
    /\ race_thread[t].pc = "idle"
    /\ pool_status = "ok"
    /\ race_thread' = [race_thread EXCEPT ![t] =
           IF pool.next_offset > Wrap(pool.capacity - pool.item_width)
           THEN RaceDone(t, 0, NULL)
           ELSE [@ EXCEPT !.pc = "address"]]
    /\ UNCHANGED <<arena_vars, pool_vars, heap_vars, race_mode, race_target>>

\* void *allocation = (u8 *)pool->data + pool->next_offset;
RacePoolAllocAddress(t) ==
    /\ race_mode = "interleaved" /\ race_target = "pool"
    /\ race_thread[t].pc = "address"
    /\ pool_status = "ok"
    /\ race_thread' = [race_thread EXCEPT ![t] =
           [@ EXCEPT !.pc = "link", !.allocation = Wrap(pool.data + pool.next_offset)]]
    /\ UNCHANGED <<arena_vars, pool_vars, heap_vars, race_mode, race_target>>

\* pool->next_offset = *(u64 *)allocation; return allocation;
RacePoolAllocLink(t) ==
    /\ race_mode = "interleaved" /\ race_target = "pool"
    /\ race_thread[t].pc = "link"
    /\ pool_status = "ok"
    /\ LET offset == Wrap(race_thread[t].allocation - pool.data)
       IN  /\ \E junk \in (IF InBounds(pool.capacity, offset) THEN {0} ELSE JunkWords) :
                 pool' = [pool EXCEPT !.next_offset = ReadU64(pool_mem, offset, junk)]
           /\ pool_status' \in Survives(IF InBounds(pool.capacity, offset) THEN {} ELSE {offset})
    /\ race_thread' = [race_thread EXCEPT ![t] = RaceDone(t, 0, race_thread[t].allocation)]
    /\ UNCHANGED <<pool_mem, pool_allocated, pool_freed, pool_misuse, pool_walked,
                   pool_call, pool_streak, pool_calls,
                   arena_vars, heap_vars, race_mode, race_target>>

RaceArenaAtomicStep == \E t \in Threads : RaceArenaAllocAtomic(t)
RaceArenaHeadStep == \E t \in Threads : RaceArenaAllocHead(t)
RaceArenaAddressStep == \E t \in Threads : RaceArenaAllocAddress(t)
RaceArenaWriteStep == \E t \in Threads : RaceArenaAllocWrite(t)
RacePoolAtomicStep == \E t \in Threads : RacePoolAllocAtomic(t)
RacePoolCheckStep == \E t \in Threads : RacePoolAllocCheck(t)
RacePoolAddressStep == \E t \in Threads : RacePoolAllocAddress(t)
RacePoolLinkStep == \E t \in Threads : RacePoolAllocLink(t)

RaceNext ==
    \/ RaceArenaAtomicStep
    \/ RaceArenaHeadStep
    \/ RaceArenaAddressStep
    \/ RaceArenaWriteStep
    \/ RacePoolAtomicStep
    \/ RacePoolCheckStep
    \/ RacePoolAddressStep
    \/ RacePoolLinkStep

(***************************************************************************)
(* Specifications: one allocator at a time, the others constructed and     *)
(* left alone                                                              *)
(***************************************************************************)
ArenaIdle ==
    /\ arena = harmony_arena_create(4096, 0)
    /\ arena_made = [by |-> "create", capacity |-> 0]
    /\ arena_live = {}
    /\ arena_call = [op |-> "create", ptr |-> NULL, size |-> 0, new_size |-> 0,
                     ret |-> NULL, head0 |-> 0, prev |-> "none", prev_used |-> FALSE,
                     copy |-> NoCopy]
    /\ arena_status = "ok"

PoolIdle ==
    LET r == harmony_pool_create(4096, MIN_ITEM_WIDTH, 0, 0)
    IN  /\ pool = r.pool
        /\ pool_mem = r.mem
        /\ pool_call = [op |-> "create", ptr |-> NULL, ret |-> NULL, next0 |-> 0,
                        oob |-> r.oob, dup |-> FALSE]
        /\ pool_status = "ok"
        /\ pool_allocated = {}
        /\ pool_freed = {}
        /\ pool_misuse = FALSE
        /\ pool_walked = FALSE
        /\ pool_streak = [fresh |-> TRUE, rets |-> << >>]
        /\ pool_calls = 0

HeapIdle ==
    /\ heap_blocks = {}
    /\ heap_call = HeapCall("none", "none", NULL, 0, 0, NULL)
    /\ heap_debug = TRUE
    /\ heap_status = "ok"

RaceIdle ==
    /\ race_mode = "atomic"
    /\ race_target = "arena"
    /\ race_thread = [t \in Threads |-> RaceIdleThread]

ArenaSpecInit == ArenaInit /\ PoolIdle /\ HeapIdle /\ RaceIdle

ArenaSpec == ArenaSpecInit /\ [][ArenaNext]_vars

PoolSpecInit == PoolInit /\ ArenaIdle /\ HeapIdle /\ RaceIdle

PoolSpec == PoolSpecInit /\ [][PoolNext]_vars

HeapSpecInit == HeapInit /\ ArenaIdle /\ PoolIdle /\ RaceIdle

HeapSpec == HeapSpecInit /\ [][HeapNext]_vars

RaceSpecInit ==
    /\ RaceInit
    /\ HeapIdle
    /\ \/ race_target = "arena" /\ ArenaInit /\ PoolIdle
       \/ race_target = "pool" /\ PoolInit /\ ArenaIdle

RaceSpec == RaceSpecInit /\ [][RaceNext]_vars

(***************************************************************************)
(* Properties                                                              *)
(***************************************************************************)
\* offset_of(ptr) in the arena's buffer
ArenaOffset(ptr) == Wrap(ptr - arena.data)

\* the byte range [lo, hi) of an allocation: its alignment-rounded size
RangeLo(al) == ArenaOffset(al.ptr)
RangeHi(al) == ArenaOffset(al.ptr) + round_up(al.size, ARENA_ALIGNMENT)
Disjoint(a, b) == RangeHi(a) <= RangeLo(b) \/ RangeHi(b) <= RangeLo(a)

PoolSlots == pool.capacity \div pool.item_width
PoolOffset(ptr) == Wrap(ptr - pool.data)

\* C1: on a pool of n >= 1 slots, of the allocs made right after the reset
\* (nothing else called in between) the k-th succeeds for every k <= n and
\* the (n+1)-th returns NULL.
C1_ExactlyNAllocsSucceed ==
    (pool_streak.fresh /\ PoolSlots >= 1) =>
        \A k \in 1 .. Len(pool_streak.rets) :
            k <= PoolSlots + 1 => (pool_streak.rets[k] <=> k <= PoolSlots)

\* C2: on a pool of n >= 1 slots, every pointer harmony_pool_alloc returns lies
\* at an offset that is a multiple of item_width within [0, capacity - item_width],
\* and while no slot has been freed twice (and only reset, alloc and free
\* were called) the slots the caller holds are pairwise at least item_width
\* apart and none is handed out while held.
C2_SlotsAlignedAndExclusive ==
    PoolSlots >= 1 =>
        /\ (pool_call.op = "alloc" /\ pool_call.ret # NULL) =>
              /\ PoolOffset(pool_call.ret) % pool.item_width = 0
              /\ PoolOffset(pool_call.ret) <= pool.capacity - pool.item_width
        /\ (~pool_misuse /\ ~pool_walked) =>
              /\ \A a, b \in pool_allocated :
                    a # b => (a - b >= pool.item_width \/ b - a >= pool.item_width)
              /\ pool_call.op = "alloc" => ~pool_call.dup

\* C3: any two allocations the caller holds from the arena (requests no larger
\* than the capacity) occupy disjoint ranges [offset, offset + round_up(size, 16)).
C3_LiveAllocationsDisjoint ==
    \A a, b \in arena_live :
        (a # b /\ a.size <= arena.capacity /\ b.size <= arena.capacity) => Disjoint(a, b)

\* C4: 0 <= head <= capacity in every state the arena reaches.
C4_HeadWithinCapacity == 0 <= arena.head /\ arena.head <= arena.capacity

\* C4 witness: an alloc has filled a buffer of positive capacity to the brim
\* after a free or realloc moved head.
C4_Witness ==
    /\ arena_call.op = "alloc" /\ arena_call.ret # NULL
    /\ arena_call.prev \in {"free", "realloc"}
    /\ arena.capacity > 0 /\ arena.head = arena.capacity

\* C5: an alloc of size > 0 with head + round_up(size, 16) <= capacity returns the
\* non-NULL address data + old head and sets head to old head + round_up(size, 16).
C5_AllocFitsReturnsOldHead ==
    (/\ arena_call.op = "alloc"
     /\ arena_call.size > 0
     /\ arena_call.head0 + round_up(arena_call.size, ARENA_ALIGNMENT) <= arena.capacity)
    => /\ arena_call.ret # NULL
       /\ arena_call.ret = arena.data + arena_call.head0
       /\ arena.head = arena_call.head0 + round_up(arena_call.size, ARENA_ALIGNMENT)

\* C5 witness: alloc(10) at head 16 consumed the rounded 16 bytes.
C5_Witness ==
    /\ arena_call.op = "alloc" /\ arena_call.size = 10 /\ arena_call.head0 = 16
    /\ arena_call.ret = arena.data + 16 /\ arena.head = 32

\* C6: an alloc with head + round_up(size, 16) > capacity returns NULL and
\* leaves head unchanged.
C6_AllocTooLargeFails ==
    (/\ arena_call.op = "alloc"
     /\ arena_call.head0 + round_up(arena_call.size, ARENA_ALIGNMENT) > arena.capacity)
    => (arena_call.ret = NULL /\ arena.head = arena_call.head0)

\* C7: harmony_arena_alloc(arena, 0) returns NULL and leaves head unchanged.
C7_AllocZeroFails ==
    (arena_call.op = "alloc" /\ arena_call.size = 0)
    => (arena_call.ret = NULL /\ arena.head = arena_call.head0)

\* C7 witness: alloc(0) was called on an arena with room left after an alloc.
C7_Witness ==
    /\ arena_call.op = "alloc" /\ arena_call.size = 0 /\ arena_call.prev = "alloc"
    /\ arena_call.head0 > 0 /\ arena_call.head0 < arena.capacity

\* C8: when an alloc(n) succeeds and free(p, n) of its result follows at once,
\* head is back at its value before the alloc.
C8_AllocFreeRoundTrip ==
    [][(/\ arena_call.op = "alloc" /\ arena_call.ret # NULL
        /\ arena_call'.op = "free"
        /\ arena_call'.ptr = arena_call.ret /\ arena_call'.size = arena_call.size)
       => arena'.head = arena_call.head0]_vars

\* C9: a free of an allocation that is not the most recent one
\* (offset_of(p) + round_up(size, 16) # head) leaves head unchanged.
C9_FreeNotMostRecentIsNoOp ==
    (/\ arena_call.op = "free"
     /\ arena_call.size <= arena.capacity
     /\ ArenaOffset(arena_call.ptr) + round_up(arena_call.size, ARENA_ALIGNMENT)
            # arena_call.head0)
    => arena.head = arena_call.head0

\* C10 as stated: a reset leaves head = 0, and an alloc(cap) that follows a
\* reset, cap the capacity and a multiple of 16, succeeds.
C10_ResetThenAllocCapacity ==
    /\ arena_call.op = "reset" => arena.head = 0
    /\ (/\ arena_call.op = "alloc" /\ arena_call.prev = "reset"
        /\ arena_call.size = arena.capacity
        /\ arena.capacity % ARENA_ALIGNMENT = 0)
       => arena_call.ret # NULL

\* C10 amended: a reset leaves head = 0, and an alloc(cap) that follows a
\* reset, cap the capacity, positive and a multiple of 16, succeeds and takes
\* the whole buffer.
C10_ResetThenAllocPositiveCapacity ==
    /\ arena_call.op = "reset" => arena.head = 0
    /\ (/\ arena_call.op = "alloc" /\ arena_call.prev = "reset"
        /\ arena_call.size = arena.capacity
        /\ arena.capacity > 0
        /\ arena.capacity % ARENA_ALIGNMENT = 0)
       => (arena_call.ret = arena.data /\ arena.head = arena.capacity)

\* C10 witness: alloc(cap) succeeded right after a reset of an arena whose
\* head earlier calls had left above 0.
C10_Witness ==
    /\ arena_call.op = "alloc" /\ arena_call.prev = "reset"
    /\ arena_call.prev_used
    /\ arena.capacity > 0 /\ arena_call.size = arena.capacity
    /\ arena_call.ret = arena.data /\ arena.head = arena.capacity

\* C11: harmony_arena_create(allocator, capacity) leaves an arena whose capacity
\* is the requested one and whose head is 0 until the first call, and the first
\* alloc on it, of a size > 0 with round_up(size, 16) <= requested capacity,
\* succeeds.
C11_CreateSetsCapacity ==
    arena_made.by = "create" =>
        /\ arena.capacity = arena_made.capacity
        /\ arena_call.op = "create" => arena.head = 0
        /\ (/\ arena_call.op = "alloc" /\ arena_call.prev = "create"
            /\ arena_call.size > 0
            /\ round_up(arena_call.size, ARENA_ALIGNMENT) <= arena_made.capacity)
           => arena_call.ret # NULL

\* the link stored in slot i (the u64 at byte offset i * item_width)
SlotLink(i) == ReadU64(pool_mem, i * pool.item_width, 0)

\* C12: right after harmony_pool_reset (also the one harmony_pool_create runs)
\* on a pool of n >= 1 slots, next_offset is 0, the link in slot i is the byte
\* offset of slot i + 1 for every i < n - 1, the link in the last slot is
\* greater than capacity - item_width, and the caller holds no slot.
C12_ResetBuildsChain ==
    (pool_call.op \in {"create", "reset"} /\ pool_status = "ok" /\ PoolSlots >= 1) =>
        /\ pool.next_offset = 0
        /\ \A i \in 0 .. PoolSlots - 2 : SlotLink(i) = (i + 1) * pool.item_width
        /\ SlotLink(PoolSlots - 1) > pool.capacity - pool.item_width
        /\ pool_allocated = {}

\* C13: on a pool of n >= 1 slots, when only allocs and frees were called since
\* the reset, no slot was freed twice and the caller holds no slot any more,
\* harmony_pool_is_valid returns true.
C13_DrainedPoolIsValid ==
    (/\ pool_call.op = "is_valid" /\ pool_call.first
     /\ ~pool_misuse /\ pool_allocated = {} /\ PoolSlots >= 1)
    => pool_call.ret = TRUE

\* C14: a harmony_pool_is_valid called right after the second harmony_pool_free
\* of a slot (freed before and not handed out since) returns false after
\* following at most capacity / item_width links.
C14_DoubleFreeIsInvalid ==
    (pool_call.op = "is_valid" /\ pool_call.after_double /\ PoolSlots >= 1)
    => (pool_call.ret = FALSE /\ pool_call.steps <= PoolSlots)

\* C15 as stated: on a pool of n >= 1 slots where only allocs and frees were
\* called since the reset, no slot was freed twice and the caller still holds
\* a slot, harmony_pool_is_valid stops before n links and returns true.
C15_LeakIsValid ==
    (/\ pool_call.op = "is_valid" /\ pool_call.first
     /\ ~pool_misuse /\ pool_allocated # {} /\ PoolSlots >= 1)
    => (pool_call.ret = TRUE /\ pool_call.steps < PoolSlots)

\* C15 amended: when the walk of harmony_pool_is_valid reaches an out-of-range
\* offset before slot_count links the function returns false; it returns true
\* only after following exactly slot_count links.
C15_EarlyEndIsInvalid ==
    pool_call.op = "is_valid" =>
        /\ pool_call.steps < PoolSlots => pool_call.ret = FALSE
        /\ pool_call.ret = TRUE => pool_call.steps = PoolSlots

\* C15 witness: with a slot still held and nothing freed twice, the first
\* harmony_pool_is_valid since the reset stopped early and returned false.
C15_Witness ==
    /\ pool_call.op = "is_valid" /\ pool_call.first
    /\ ~pool_misuse /\ pool_allocated # {} /\ PoolSlots >= 2
    /\ pool_call.steps >= 1 /\ pool_call.steps < PoolSlots
    /\ pool_call.ret = FALSE

\* ptr was the most recent allocation when the last call was made
WasMostRecent ==
    ArenaOffset(arena_call.ptr) + round_up(arena_call.size, ARENA_ALIGNMENT) = arena_call.head0

min(a, b) == IF a < b THEN a ELSE b

\* C16: a realloc of the most recent allocation to a new_size > 0 with
\* offset_of(ptr) + round_up(new_size, 16) <= capacity returns ptr itself and
\* sets head to offset_of(ptr) + round_up(new_size, 16).
C16_ReallocInPlace ==
    (/\ arena_call.op = "realloc" /\ arena_call.new_size > 0
     /\ WasMostRecent
     /\ ArenaOffset(arena_call.ptr) + round_up(arena_call.new_size, ARENA_ALIGNMENT)
            <= arena.capacity)
    => /\ arena_call.ret = arena_call.ptr
       /\ arena.head = ArenaOffset(arena_call.ptr)
                          + round_up(arena_call.new_size, ARENA_ALIGNMENT)

\* C17: realloc(arena, ptr, old_size, 0) returns NULL and moves head as
\* free(arena, ptr, old_size) is specified to: back to offset_of(ptr) when ptr is
\* the most recent allocation, not at all otherwise.
C17_ReallocZeroIsFree ==
    (arena_call.op = "realloc" /\ arena_call.new_size = 0) =>
        /\ arena_call.ret = NULL
        /\ arena.head = IF WasMostRecent THEN ArenaOffset(arena_call.ptr)
                                         ELSE arena_call.head0

\* C18: a realloc of an allocation (of a size within the capacity) that is not
\* the most recent one, to a new_size > 0 with head + round_up(new_size, 16) <=
\* capacity, returns data + old head, advances head by round_up(new_size, 16),
\* and copies exactly min(old_size, new_size) bytes from ptr to the start of
\* the new allocation.
C18_ReallocFallbackCopiesMin ==
    (/\ arena_call.op = "realloc" /\ arena_call.new_size > 0
     /\ arena_call.size <= arena.capacity
     /\ ~WasMostRecent
     /\ arena_call.head0 + round_up(arena_call.new_size, ARENA_ALIGNMENT) <= arena.capacity)
    => /\ arena_call.ret = arena.data + arena_call.head0
       /\ arena.head = arena_call.head0 + round_up(arena_call.new_size, ARENA_ALIGNMENT)
       /\ arena_call.copy.made
       /\ arena_call.copy.dst = arena_call.ret
       /\ arena_call.copy.src = arena_call.ptr
       /\ arena_call.copy.len = min(arena_call.size, arena_call.new_size)

\* C19: a realloc (of an allocation of a size within the capacity) to a
\* new_size > 0 that does not fit (after offset_of(ptr) for the most recent
\* allocation, after head otherwise) returns NULL, leaves head unchanged,
\* copies nothing and leaves the process running.
C19_ReallocFailureIsClean ==
    (/\ arena_call.op = "realloc" /\ arena_call.new_size > 0
     /\ arena_call.size <= arena.capacity
     /\ (IF WasMostRecent THEN ArenaOffset(arena_call.ptr) ELSE arena_call.head0)
            + round_up(arena_call.new_size, ARENA_ALIGNMENT) > arena.capacity)
    => /\ arena_call.ret = NULL
       /\ arena.head = arena_call.head0
       /\ ~arena_call.copy.made
       /\ arena_status = "ok"

\* C20: through the heap-backed allocators (default and system) an alloc of
\* size 0 and a realloc to new_size 0 return NULL.
C20_ZeroSizeReturnsNull ==
    /\ (heap_call.op = "alloc" /\ heap_call.size = 0) => heap_call.ret = NULL
    /\ (heap_call.op = "realloc" /\ heap_call.new_size = 0) => heap_call.ret = NULL

\* C21: when malloc or realloc cannot satisfy a request of a size > 0, the
\* default and the system allocator return NULL to the caller and the process
\* keeps running, in debug and in release builds.
C21_HeapFailureIsNotFatal ==
    /\ (heap_call.op = "alloc" /\ heap_call.size > 0 /\ heap_call.ret = NULL)
          => heap_status = "ok"
    /\ (heap_call.op = "realloc" /\ heap_call.new_size > 0 /\ heap_call.ret = NULL)
          => heap_status = "ok"

RaceBothDone == \A t \in Threads : race_thread[t].pc = "done"
RaceSameAddress ==
    /\ RaceBothDone
    /\ race_thread[1].ret # NULL
    /\ race_thread[1].ret = race_thread[2].ret

\* C22: when each of the two calls runs atomically, the two threads are never
\* handed the same address (that they are when the calls interleave is the
\* state RaceSameAddress reached with race_mode = "interleaved").
C22_AtomicCallsReturnDistinct == race_mode = "atomic" => ~RaceSameAddress

\* the call just made was a harmony_pool_alloc
AllocStep == pool_calls' # pool_calls /\ pool_call'.op = "alloc"

\* C23: harmony_pool_alloc with next_offset <= capacity - item_width returns
\* the slot at the old next_offset, sets next_offset to the link stored at the
\* start of that slot and changes nothing else; with next_offset > capacity -
\* item_width it returns NULL and changes neither next_offset nor any slot.
C23_AllocPopsHead ==
    [][AllocStep =>
         /\ pool_mem' = pool_mem
         /\ pool'.data = pool.data
         /\ pool'.capacity = pool.capacity
         /\ pool'.item_width = pool.item_width
         /\ IF pool.next_offset <= pool.capacity - pool.item_width
            THEN /\ pool_call'.ret = pool.data + pool.next_offset
                 /\ pool'.next_offset = ReadU64(pool_mem, pool.next_offset, 0)
            ELSE /\ pool_call'.ret = NULL
                 /\ pool'.next_offset = pool.next_offset]_vars

\* p meets the precondition harmony_pool_free asserts: it lies in the buffer
InBuffer(ptr) == pool_free_assert(pool, ptr)

\* C24: harmony_pool_free(pool, p) writes the next_offset it found into p's
\* first 8 bytes and sets next_offset to p's offset; the harmony_pool_alloc
\* made next returns p and puts next_offset back to the value it had before
\* the free.
C24_FreeIsLifo ==
    /\ (pool_call.op = "free" /\ InBuffer(pool_call.ptr))
          => /\ ReadU64(pool_mem, PoolOffset(pool_call.ptr), 0) = pool_call.next0
             /\ pool.next_offset = PoolOffset(pool_call.ptr)
    /\ (pool_call.op = "alloc" /\ pool_call.prev.op = "free" /\ InBuffer(pool_call.prev.ptr))
          => /\ pool_call.ret = pool_call.prev.ptr
             /\ pool.next_offset = pool_call.prev.next0

C24_Witness ==
    /\ pool_call.op = "alloc"
    /\ pool_call.prev.op = "free"
    /\ InBuffer(pool_call.prev.ptr)
    /\ pool_call.ret = pool_call.prev.ptr
    /\ pool_call.prev.next0 # PoolOffset(pool_call.ret)

\* the call just made was a harmony_pool_is_valid
IsValidStep == pool_calls' # pool_calls /\ pool_call'.op = "is_valid"

\* C25: harmony_pool_is_valid changes next_offset and nothing else of the pool
\* (buffer contents, capacity and item_width stay); when it returns true on a
\* pool with slots, next_offset is left past the end of the chain and not at
\* the head it started from; and after it returned true on a pool with no slot
\* handed out every harmony_pool_alloc fails, leaving the pool as it is.
C25_IsValidUsesUpTheChain ==
    [][/\ IsValidStep =>
            /\ pool_mem' = pool_mem
            /\ pool'.data = pool.data
            /\ pool'.capacity = pool.capacity
            /\ pool'.item_width = pool.item_width
            /\ (pool_call'.ret /\ PoolSlots >= 1) =>
                   /\ pool'.next_offset # pool.next_offset
                   /\ pool'.next_offset > pool.capacity - pool.item_width
       /\ (AllocStep /\ pool_call'.sealed) =>
            /\ pool_call'.ret = NULL
            /\ pool' = pool]_vars

C25_Witness ==
    /\ pool_call.op = "alloc"
    /\ pool_call.sealed
    /\ pool_call.prev.op = "alloc"
    /\ PoolSlots >= 2
    /\ pool_call.ret = NULL

\* C26: a double free is not detected and corrupts the chain: after
\* harmony_pool_free(p); harmony_pool_free(p) the link stored in p is p's own
\* offset, and the allocs that follow return p again and again.
C26_DoubleFreeLoopsChain ==
    /\ (pool_call.op = "free" /\ pool_call.twice /\ InBuffer(pool_call.ptr))
          => /\ ReadU64(pool_mem, PoolOffset(pool_call.ptr), 0) = PoolOffset(pool_call.ptr)
             /\ pool.next_offset = PoolOffset(pool_call.ptr)
    /\ (pool_call.op = "alloc" /\ pool_call.prev.twice /\ InBuffer(pool_call.ret))
          => /\ pool.next_offset = PoolOffset(pool_call.ret)
             /\ pool_call.prev.op = "free" => pool_call.ret = pool_call.prev.ptr
             /\ pool_call.prev.op = "alloc" => pool_call.ret = pool_call.prev.ret

C26_Witness ==
    /\ pool_call.op = "alloc"
    /\ pool_call.prev.op = "alloc"
    /\ pool_call.prev.twice
    /\ pool_call.ret = pool_call.prev.ret
    /\ pool_call.dup
    /\ PoolSlots >= 2
    /\ pool_call.ret # pool.data

\* the offset harmony_pool_alloc leaves in next_offset after k successful calls
\* in a row that start at offset
RECURSIVE alloc_walk(_, _)
alloc_walk(offset, k) ==
    IF k = 0 THEN offset ELSE alloc_walk(ReadU64(pool_mem, offset, 0), k - 1)

\* C27: harmony_pool_is_valid walks the chain harmony_pool_alloc consumes: the
\* offset it stops at is the one that many allocs in a row would leave in
\* next_offset.
C27_IsValidWalksAllocChain ==
    (pool_call.op = "is_valid" /\ PoolSlots >= 1 /\ pool_call.oob = {})
        => pool.next_offset = alloc_walk(pool_call.next0, pool_call.steps)

\* C28: on a pool with at least one slot, create, reset, alloc, is_valid and the
\* free of a slot the caller holds touch no byte outside the buffer.
C28_PoolStaysInBuffer ==
    (PoolSlots >= 1 /\ ~(pool_call.op = "free" /\ pool_call.dup))
        => pool_call.oob = {}

\* C29: on a pool created with item_count 0 (capacity 0 < item_width)
\* harmony_pool_alloc returns NULL and reads nothing, and harmony_pool_is_valid
\* reads no slot.
C29_EmptyPoolAllocFails ==
    pool.capacity < pool.item_width =>
        /\ pool_call.op = "alloc" => (pool_call.ret = NULL /\ pool_call.oob = {})
        /\ pool_call.op = "is_valid" => (pool_call.steps = 0 /\ pool_call.oob = {})

\* C30: harmony_arena_alloc never hands out more than is left: a call that
\* returns non-NULL asked for no more than capacity - head bytes, whatever the
\* size, up to the largest usize.
C30_AllocFitsRemaining ==
    (arena_call.op = "alloc" /\ arena_call.ret # NULL)
        => /\ arena_call.head0 <= arena.capacity
           /\ arena_call.size <= arena.capacity - arena_call.head0

====
